---- MODULE Spec2Model ----
(***************************************************************************)
(* Model of cces-rs: the instruction byte encoding (three Instruction      *)
(* enums), the arity-checked InstructionCall builders, the creature        *)
(* register memory and the creature tape state.                            *)
(***************************************************************************)
EXTENDS Integers, Sequences, FiniteSets, TLC

VARIABLES
    conv,          \* the last conversion / builder invocation and its result
    mem,           \* CreatureMemory {a, b, tmp}
    written,       \* per register, the value most recently passed to its setter
    creature,      \* Creature {cycle, current, instructions}
    pos,           \* CreaturePos <<x, y>>
    dir,           \* CreatureDir
    report,        \* the events reported by the last tick
    last,          \* the last tick: what was fetched and the state before it
    log            \* the calls executed so far, oldest first

vars ==
    <<conv, mem, written, creature, pos, dir, report, last, log>>

procVars ==
    <<creature, pos, dir, report, last, log>>

(***************************************************************************)
(* Result / Option values                                                  *)
(***************************************************************************)
Ok(x) ==
    [ok |-> TRUE, val |-> x]

Err ==
    [ok |-> FALSE]

(***************************************************************************)
(* The three Instruction enums, in declaration order, with discriminants.  *)
(***************************************************************************)
CreatureInstruction ==
    << <<"None", 0>>,            \* 0b000000_00
       <<"Move", 4>>,            \* 0b000001_00
       <<"Jump", 8>>,            \* 0b000010_00
       <<"RotateCW", 12>>,       \* 0b000011_00
       <<"RotateCCW", 16>>,      \* 0b000100_00
       <<"ClearA", 20>>,         \* 0b000101_00
       <<"ClearB", 24>>,         \* 0b000110_00
       <<"Goto", 29>>,           \* 0b000111_01
       <<"GotoCondAGtB", 33>>,   \* 0b001000_01
       <<"GotoCondEq", 37>>,     \* 0b001001_01
       <<"SwapAB", 40>>,         \* 0b001010_00
       <<"CopyATmp", 44>>,       \* 0b001011_00
       <<"LoadTmpA", 48>>,       \* 0b001100_00
       <<"LoadTmpB", 52>>,       \* 0b001101_00
       <<"StoreHealthTmp", 56>>, \* 0b001110_00
       <<"StoreHungerTmp", 60>>, \* 0b001111_00
       <<"StoreWasteTmp", 88>>,  \* 0b010110_00
       <<"StoreLOSCTmp", 64>>,   \* 0b010000_00
       <<"UAdd", 69>>,           \* 0b010001_01
       <<"IAdd", 73>>,           \* 0b010010_01
       <<"BitAndB", 76>>,        \* 0b010011_00
       <<"BitAnd", 77>>,         \* 0b010011_01
       <<"BitOrB", 80>>,         \* 0b010100_00
       <<"BitOr", 81>>,          \* 0b010100_01
       <<"BitXorB", 84>>,        \* 0b010101_00
       <<"BitXor", 85>> >>       \* 0b010101_01

InstructionsInstruction ==
    << <<"None", 0>>,            \* 0b000000_00
       <<"Move", 4>>,            \* 0b000001_00
       <<"Jump", 8>>,            \* 0b000010_00
       <<"RotateCW", 16>>,       \* 0b000100_00
       <<"RotateCCW", 24>>,      \* 0b000110_00
       <<"ClearA", 32>>,         \* 0b001000_00
       <<"ClearB", 36>>,         \* 0b001001_00
       <<"Goto", 65>>,           \* 0b010000_01
       <<"GotoCondAGtB", 97>>,   \* 0b011000_01
       <<"GotoCondEq", 101>>,    \* 0b011001_01
       <<"SwapAB", 76>>,         \* 0b010011_00
       <<"StoreATmp", 80>>,      \* 0b010100_00
       <<"StoreBTmp", 84>>,      \* 0b010101_00
       <<"LoadTmpA", 88>>,       \* 0b010110_00
       <<"LoadTmpB", 92>>,       \* 0b010111_00
       <<"StoreHealthTmp", 64>>, \* 0b010000_00
       <<"StoreHungerTmp", 68>>, \* 0b010001_00
       <<"StoreLOSCTmp", 72>>,   \* 0b010010_00
       <<"UAddA", 129>>,         \* 0b100000_01
       <<"UAddB", 133>>,         \* 0b100001_01
       <<"IAddA", 137>>,         \* 0b100010_01
       <<"IAddB", 141>>,         \* 0b100011_01
       <<"BitAndATmp", 193>>,    \* 0b110000_01
       <<"BitAndBTmp", 197>>,    \* 0b110001_01
       <<"BitOrATmp", 225>>,     \* 0b111000_01
       <<"BitOrBTmp", 229>>,     \* 0b111001_01
       <<"BitXorATmp", 241>>,    \* 0b111100_01
       <<"BitXorBTmp", 245>> >>  \* 0b111101_01

MainInstruction ==
    << <<"None", 16>>,           \* 0b00010000
       <<"Move", 33>>,           \* 0b00100001
       <<"Rotate", 49>> >>       \* 0b00110001

\* The enums of the repository, by the file that declares them.
Sets ==
    {"creature", "instructions", "main"}

Enum(set) ==
    CASE set = "creature"     -> CreatureInstruction
      [] set = "instructions" -> InstructionsInstruction
      [] set = "main"         -> MainInstruction

Variants(set) ==
    {Enum(set)[i][1] : i \in 1..Len(Enum(set))}

\* `variant as u64`: the discriminant of the variant.
Discriminant(set, v) ==
    LET i == CHOOSE k \in 1..Len(Enum(set)) : Enum(set)[k][1] = v
    IN  Enum(set)[i][2]

Byte ==
    0..255

(***************************************************************************)
(* Bit operations on naturals, bit by bit.                                 *)
(***************************************************************************)
RECURSIVE BitAnd(_, _)
BitAnd(x, y) ==
    IF x = 0 \/ y = 0 THEN 0
    ELSE (IF x % 2 = 1 /\ y % 2 = 1 THEN 1 ELSE 0) + 2 * BitAnd(x \div 2, y \div 2)

(***************************************************************************)
(* derive(ToPrimitive): to_u64 is `*self as u64`, to_u8 narrows it.        *)
(***************************************************************************)
to_u8(set, v) ==
    LET n == Discriminant(set, v)
    IN  IF n \in Byte THEN Ok(n) ELSE Err

(***************************************************************************)
(* derive(FromPrimitive): an if-chain over the variants in declaration     *)
(* order, the first variant whose discriminant equals the value wins.      *)
(***************************************************************************)
from_u8_masked(set, value) ==
    LET e    == Enum(set)
        hits == {k \in 1..Len(e) : e[k][2] \div 4 = value \div 4}
    IN  IF hits = {} THEN Err
        ELSE Ok(e[CHOOSE k \in hits : \A j \in hits : k <= j][1])

from_u8_default(set, value) ==
    LET e    == Enum(set)
        hits == {k \in 1..Len(e) : e[k][2] = value}
    IN  IF hits = {} THEN Ok(e[1][1])
        ELSE Ok(e[CHOOSE k \in hits : \A j \in hits : k <= j][1])

from_u8(set, value) ==
    LET e    == Enum(set)
        hits == {k \in 1..Len(e) : e[k][2] = value}
    IN  IF hits = {} THEN Err
        ELSE Ok(e[CHOOSE k \in hits : \A j \in hits : k <= j][1])

\* TryFrom<Instruction> for u8
to_byte(set, v) ==
    to_u8(set, v)

from_byte_defaulting(set, value) ==
    LET r == from_u8(set, value)
    IN  IF r.ok THEN r ELSE Ok(Enum(set)[1][1])

\* TryFrom<u8> for Instruction
from_byte(set, value) ==
    from_u8(set, value)

ARG_BIT_MASK ==
    3

ARG_BITS ==
    15

\* get_args: creature.rs and instructions.rs mask with ARG_BIT_MASK and fall
\* back to 0 when the conversion fails; main.rs masks with ARG_BITS.
get_args_wide(set, v) ==
    LET r    == to_byte(set, v)
        inst == IF r.ok THEN r.val ELSE 0
    IN  BitAnd(inst, ARG_BITS)

get_args_shifted(set, v) ==
    LET r    == to_byte(set, v)
        inst == IF r.ok THEN r.val ELSE 0
    IN  BitAnd(inst \div 4, ARG_BIT_MASK)

get_args(set, v) ==
    LET r    == to_byte(set, v)
        inst == IF r.ok THEN r.val ELSE 0
    IN  IF set = "main" THEN BitAnd(inst, ARG_BITS) ELSE BitAnd(inst, ARG_BIT_MASK)

(***************************************************************************)
(* InstructionCall and its builders (processor.rs).  The builders are      *)
(* instantiated with the Instruction of creature.rs, the only enum that    *)
(* implements the processor's Instruction trait.                           *)
(***************************************************************************)
None ==
    [some |-> FALSE]

Some(x) ==
    [some |-> TRUE, val |-> x]

new_raw_shifted(instruction, arg1, arg2, arg3) ==
    [instruction |-> instruction, args |-> <<arg3, arg1, arg2>>]

new_raw(instruction, arg1, arg2, arg3) ==
    [instruction |-> instruction, args |-> <<arg1, arg2, arg3>>]

new_3_arg(instruction, arg1, arg2, arg3) ==
    IF get_args("creature", instruction) # 3 THEN Err
    ELSE Ok(new_raw(instruction, Some(arg1), Some(arg2), Some(arg3)))

new_2_arg(instruction, arg1, arg2) ==
    IF get_args("creature", instruction) # 2 THEN Err
    ELSE Ok(new_raw(instruction, Some(arg1), Some(arg2), None))

new_1_arg_unchecked(instruction, arg1) ==
    Ok(new_raw(instruction, Some(arg1), None, None))

new_1_arg(instruction, arg1) ==
    IF get_args("creature", instruction) # 1 THEN Err
    ELSE Ok(new_raw(instruction, Some(arg1), None, None))

new_0_arg(instruction) ==
    IF get_args("creature", instruction) # 0 THEN Err
    ELSE Ok(new_raw(instruction, None, None, None))

(***************************************************************************)
(* Conversions and builders applied to enumerated inputs.                  *)
(***************************************************************************)
\* Argument bytes handed to the builders.
ArgBytes ==
    {0, 1, 255}

Idle ==
    [op |-> "none"]

ToByte(set, v) ==
    /\ conv' = [op |-> "to_byte", set |-> set, inst |-> v, res |-> to_byte(set, v)]
    /\ UNCHANGED <<mem, written, procVars>>

FromByte(set, b) ==
    /\ conv' = [op |-> "from_byte", set |-> set, byte |-> b, res |-> from_byte(set, b)]
    /\ UNCHANGED <<mem, written, procVars>>

\* v.try_into() followed by Instruction::try_from on the byte obtained.
RoundTrip(set, v) ==
    /\ LET enc == to_byte(set, v)
       IN  conv' = [op |-> "round_trip", set |-> set, inst |-> v, enc |-> enc,
                    res |-> IF enc.ok THEN from_byte(set, enc.val) ELSE Err]
    /\ UNCHANGED <<mem, written, procVars>>

GetArgs(set, v) ==
    /\ conv' = [op |-> "get_args", set |-> set, inst |-> v,
                enc |-> to_byte(set, v), res |-> get_args(set, v)]
    /\ UNCHANGED <<mem, written, procVars>>

New0Arg(v) ==
    /\ conv' = [op |-> "build", n |-> 0, inst |-> v, res |-> new_0_arg(v)]
    /\ UNCHANGED <<mem, written, procVars>>

New1Arg(v, a1) ==
    /\ conv' = [op |-> "build", n |-> 1, inst |-> v, res |-> new_1_arg(v, a1)]
    /\ UNCHANGED <<mem, written, procVars>>

New2Arg(v, a1, a2) ==
    /\ conv' = [op |-> "build", n |-> 2, inst |-> v, res |-> new_2_arg(v, a1, a2)]
    /\ UNCHANGED <<mem, written, procVars>>

New3Arg(v, a1, a2, a3) ==
    /\ conv' = [op |-> "build", n |-> 3, inst |-> v, res |-> new_3_arg(v, a1, a2, a3)]
    /\ UNCHANGED <<mem, written, procVars>>

(***************************************************************************)
(* u64 words, held as four 16-bit limbs, least significant first.          *)
(***************************************************************************)
LIMB ==
    65536

W(n) ==
    <<n, 0, 0, 0>>

MaxWord ==
    <<LIMB - 1, LIMB - 1, LIMB - 1, LIMB - 1>>

\* u64::wrapping_add
wrapping_add(x, y) ==
    LET s1 == x[1] + y[1]
        s2 == x[2] + y[2] + s1 \div LIMB
        s3 == x[3] + y[3] + s2 \div LIMB
        s4 == x[4] + y[4] + s3 \div LIMB
    IN  <<s1 % LIMB, s2 % LIMB, s3 % LIMB, s4 % LIMB>>

\* x > y on u64
GtW(x, y) ==
    \E i \in 1..4 : x[i] > y[i] /\ \A j \in (i + 1)..4 : x[j] = y[j]

BitAndW(x, y) ==
    [i \in 1..4 |-> BitAnd(x[i], y[i])]

BitOrW(x, y) ==
    [i \in 1..4 |-> x[i] + y[i] - BitAnd(x[i], y[i])]

BitXorW(x, y) ==
    [i \in 1..4 |-> x[i] + y[i] - 2 * BitAnd(x[i], y[i])]

\* `byte as u64`
ZeroExtend(byte) ==
    W(byte)

\* `byte as i8 as u64`
SignExtend(byte) ==
    IF byte < 128 THEN W(byte)
    ELSE <<LIMB - 256 + byte, LIMB - 1, LIMB - 1, LIMB - 1>>

(***************************************************************************)
(* CreatureMemory (creature.rs).                                           *)
(***************************************************************************)
CreatureMemory_default ==
    [a |-> W(0), b |-> W(0), tmp |-> W(0)]

CreatureMemory_new ==
    CreatureMemory_default

get_mem_a(m) ==
    m.a

get_mem_b(m) ==
    m.b

get_mem_tmp(m) ==
    m.tmp

set_mem_a_truncating(m, value) ==
    [m EXCEPT !.a = W(value[1] % 256)]

set_mem_a(m, value) ==
    [m EXCEPT !.a = value]

set_mem_b_aliased(m, value) ==
    [m EXCEPT !.a = value]

set_mem_b(m, value) ==
    [m EXCEPT !.b = value]

set_mem_tmp(m, value) ==
    [m EXCEPT !.tmp = value]

(***************************************************************************)
(* Creature (creature.rs), CreaturePos and CreatureDir (world.rs).         *)
(***************************************************************************)
Creature_new_with_cycle_one(instructions) ==
    [cycle |-> 1, current |-> 0, instructions |-> instructions]

Creature_new_with(instructions) ==
    [cycle |-> 0, current |-> 0, instructions |-> instructions]

Creature_new ==
    Creature_new_with(<< >>)

CreaturePos_default ==
    <<0, 0>>

CreatureDir_default ==
    "North"

NoTick ==
    [kind |-> "none"]

InitCodec ==
    /\ conv = Idle
    /\ mem = CreatureMemory_new
    /\ written = [a |-> W(0), b |-> W(0), tmp |-> W(0)]
    /\ creature = Creature_new
    /\ pos = CreaturePos_default
    /\ dir = CreatureDir_default
    /\ report = << >>
    /\ last = NoTick
    /\ log = << >>

NextCodec ==
    \/ \E set \in Sets : \E v \in Variants(set) : ToByte(set, v)
    \/ \E set \in Sets : \E b \in Byte : FromByte(set, b)
    \/ \E set \in Sets : \E v \in Variants(set) : RoundTrip(set, v)
    \/ \E set \in Sets : \E v \in Variants(set) : GetArgs(set, v)
    \/ \E v \in Variants("creature") : New0Arg(v)
    \/ \E v \in Variants("creature") : \E a1 \in ArgBytes : New1Arg(v, a1)
    \/ \E v \in Variants("creature") : \E a1, a2 \in ArgBytes : New2Arg(v, a1, a2)
    \/ \E v \in Variants("creature") : \E a1, a2, a3 \in ArgBytes : New3Arg(v, a1, a2, a3)

SpecCodec ==
    InitCodec /\ [][NextCodec]_vars

(***************************************************************************)
(* Properties of the encoding and of the builders.                         *)
(***************************************************************************)
\* C1: converting a variant to its byte and the byte back succeeds and
\* yields the same variant, and no other variant of the same enum encodes
\* to that byte.
RoundTripIdentity ==
    conv.op = "round_trip" =>
        /\ conv.enc.ok
        /\ conv.res = Ok(conv.inst)
        /\ \A w \in Variants(conv.set) :
               to_byte(conv.set, w) = conv.enc => w = conv.inst

RoundTripDone ==
    /\ conv.op = "round_trip"
    /\ conv.set = "creature"
    /\ conv.inst = "BitAnd"
    /\ conv.enc = Ok(77)

\* C2: the argument count reported for a variant is the value of the low
\* two bits of its byte, hence one of 0, 1, 2, 3.
ArityIsLowTwoBits ==
    conv.op = "get_args" =>
        /\ conv.enc.ok
        /\ conv.res = conv.enc.val % 4
        /\ conv.res \in 0..3

ArityComputed ==
    /\ conv.op = "get_args"
    /\ conv.set = "main"
    /\ conv.inst = "Rotate"
    /\ conv.res = 1

\* C3: the arity-N builder returns Ok exactly when the instruction expects
\* N arguments, and Err (no call constructed) otherwise.
BuilderSoundness ==
    conv.op = "build" =>
        /\ conv.res.ok <=> (get_args("creature", conv.inst) = conv.n)
        /\ get_args("creature", conv.inst) # conv.n => conv.res = Err

BuilderAcceptedAndRejected ==
    \/ conv.op = "build" /\ conv.n = 1 /\ conv.inst = "Goto" /\ conv.res.ok
    \/ conv.op = "build" /\ conv.n = 1 /\ conv.inst = "Move" /\ ~conv.res.ok

\* C4: a call returned by a builder has as many present argument slots as
\* its instruction expects, and the present slots are a prefix of the three.
NumSome(args) ==
    Cardinality({i \in 1..3 : args[i].some})

CallArgsMatchArity ==
    (conv.op = "build" /\ conv.res.ok) =>
        LET call == conv.res.val
            k    == get_args("creature", call.instruction)
        IN  /\ NumSome(call.args) = k
            /\ \A i \in 1..3 : call.args[i].some <=> (i <= k)

CallBuilt ==
    /\ conv.op = "build"
    /\ conv.res.ok
    /\ conv.res.val.instruction = "UAdd"
    /\ conv.res.val.args = <<Some(255), None, None>>

\* C5: decoding a byte yields a variant exactly when that variant encodes
\* to the byte, and the error value for every other byte.
Assigned(set, b) ==
    \E v \in Variants(set) : Discriminant(set, v) = b

FromByteIsPartial ==
    conv.op = "from_byte" =>
        IF Assigned(conv.set, conv.byte)
        THEN conv.res.ok /\ to_byte(conv.set, conv.res.val) = Ok(conv.byte)
        ELSE conv.res = Err

UnknownByteDecoded ==
    /\ conv.op = "from_byte"
    /\ conv.set = "creature"
    /\ conv.byte = 255
    /\ conv.res = Err

(***************************************************************************)
(* Register memory driven through its setters.                             *)
(***************************************************************************)
SampleWords ==
    {W(0), W(1), W(255), <<0, 1, 0, 0>>, MaxWord}

SetMemA(value) ==
    /\ mem' = set_mem_a(mem, value)
    /\ written' = [written EXCEPT !.a = value]
    /\ UNCHANGED <<conv, procVars>>

SetMemB(value) ==
    /\ mem' = set_mem_b(mem, value)
    /\ written' = [written EXCEPT !.b = value]
    /\ UNCHANGED <<conv, procVars>>

SetMemTmp(value) ==
    /\ mem' = set_mem_tmp(mem, value)
    /\ written' = [written EXCEPT !.tmp = value]
    /\ UNCHANGED <<conv, procVars>>

InitMem ==
    InitCodec

NextMem ==
    \/ \E w \in SampleWords : SetMemA(w)
    \/ \E w \in SampleWords : SetMemB(w)
    \/ \E w \in SampleWords : SetMemTmp(w)

SpecMem ==
    InitMem /\ [][NextMem]_vars

\* C10: a new memory holds zero in a, b and tmp, and after any sequence of
\* setter calls each getter returns the value last written to its own
\* register (zero if it was never written); a setter changes no other
\* register.
RegistersIndependent ==
    /\ get_mem_a(mem) = written.a
    /\ get_mem_b(mem) = written.b
    /\ get_mem_tmp(mem) = written.tmp

RegistersAllWritten ==
    /\ written.a = MaxWord
    /\ written.b = W(1)
    /\ written.tmp = W(255)

(***************************************************************************)
(* Processor: the effect of one InstructionCall on the register memory     *)
(* and on the creature's position and facing.                              *)
(***************************************************************************)
MaxCoord ==
    2

MaxTicks ==
    3

MaxTape ==
    4

\* Values the agent attribute collaborator may supply for Store*Tmp.
AttrWords ==
    {W(0), W(9), <<LIMB - 1, 255, 0, 0>>}

\* What the collaborators answer during one tick: whether the first and
\* the second tile ahead are free, and the attribute value read.
Envs ==
    [free1 : BOOLEAN, free2 : BOOLEAN, attr : AttrWords]

\* The answers an instruction asks for; the others are left at a fixed value.
EnvsFor(inst) ==
    CASE inst = "Move" ->
             {e \in Envs : e.free2 /\ e.attr = W(0)}
      [] inst = "Jump" ->
             {e \in Envs : e.attr = W(0)}
      [] inst \in {"StoreHealthTmp", "StoreHungerTmp", "StoreWasteTmp", "StoreLOSCTmp"} ->
             {e \in Envs : e.free1 /\ e.free2}
      [] OTHER ->
             {e \in Envs : e.free1 /\ e.free2 /\ e.attr = W(0)}

Ahead(p, d) ==
    CASE d = "North" -> <<p[1], p[2] + 1>>
      [] d = "South" -> <<p[1], p[2] - 1>>
      [] d = "East"  -> <<p[1] + 1, p[2]>>
      [] d = "West"  -> <<p[1] - 1, p[2]>>

InWorld(p) ==
    p[1] \in 0..MaxCoord /\ p[2] \in 0..MaxCoord

RotateCW(d) ==
    CASE d = "North" -> "East"
      [] d = "East"  -> "South"
      [] d = "South" -> "West"
      [] d = "West"  -> "North"

RotateCCW(d) ==
    CASE d = "North" -> "West"
      [] d = "West"  -> "South"
      [] d = "South" -> "East"
      [] d = "East"  -> "North"

\* The outcome of a call: the new memory, position and facing, and the
\* jump target when the call is a taken jump.
Outcome(m, p, d, jump) ==
    [mem |-> m, pos |-> p, dir |-> d, jump |-> jump]

execute(call, m, p, d, env) ==
    LET i    == call.instruction
        arg0 == IF call.args[1].some THEN call.args[1].val ELSE 0
        a    == get_mem_a(m)
        b    == get_mem_b(m)
        t    == get_mem_tmp(m)
        t1   == Ahead(p, d)
        t2   == Ahead(t1, d)
        ok1  == InWorld(t1) /\ env.free1
        ok2  == InWorld(t2) /\ env.free2
    IN  CASE i = "None"           -> Outcome(m, p, d, None)
          [] i = "Move"           -> Outcome(m, IF ok1 THEN t1 ELSE p, d, None)
          [] i = "Jump"           -> Outcome(m, IF ~ok1 THEN p ELSE IF ok2 THEN t2 ELSE t1, d, None)
          [] i = "RotateCW"       -> Outcome(m, p, RotateCW(d), None)
          [] i = "RotateCCW"      -> Outcome(m, p, RotateCCW(d), None)
          [] i = "ClearA"         -> Outcome(set_mem_a(m, W(0)), p, d, None)
          [] i = "ClearB"         -> Outcome(set_mem_b(m, W(0)), p, d, None)
          [] i = "Goto"           -> Outcome(m, p, d, Some(arg0))
          [] i = "GotoCondAGtB"   -> Outcome(m, p, d, IF GtW(a, b) THEN Some(arg0) ELSE None)
          [] i = "GotoCondEq"     -> Outcome(m, p, d, IF a = b THEN Some(arg0) ELSE None)
          [] i = "SwapAB"         -> Outcome(set_mem_b(set_mem_a(m, b), a), p, d, None)
          [] i = "CopyATmp"       -> Outcome(set_mem_tmp(m, a), p, d, None)
          [] i = "LoadTmpA"       -> Outcome(set_mem_tmp(set_mem_a(m, t), W(0)), p, d, None)
          [] i = "LoadTmpB"       -> Outcome(set_mem_tmp(set_mem_b(m, t), W(0)), p, d, None)
          [] i = "StoreHealthTmp" -> Outcome(set_mem_tmp(m, env.attr), p, d, None)
          [] i = "StoreHungerTmp" -> Outcome(set_mem_tmp(m, env.attr), p, d, None)
          [] i = "StoreWasteTmp"  -> Outcome(set_mem_tmp(m, env.attr), p, d, None)
          [] i = "StoreLOSCTmp"   -> Outcome(set_mem_tmp(m, env.attr), p, d, None)
          [] i = "UAdd"           -> Outcome(set_mem_a(m, wrapping_add(a, ZeroExtend(arg0))), p, d, None)
          [] i = "IAdd"           -> Outcome(set_mem_a(m, wrapping_add(a, SignExtend(arg0))), p, d, None)
          [] i = "BitAndB"        -> Outcome(set_mem_a(m, BitAndW(a, b)), p, d, None)
          [] i = "BitAnd"         -> Outcome(set_mem_a(m, BitAndW(a, ZeroExtend(arg0))), p, d, None)
          [] i = "BitOrB"         -> Outcome(set_mem_a(m, BitOrW(a, b)), p, d, None)
          [] i = "BitOr"          -> Outcome(set_mem_a(m, BitOrW(a, ZeroExtend(arg0))), p, d, None)
          [] i = "BitXorB"        -> Outcome(set_mem_a(m, BitXorW(a, b)), p, d, None)
          [] i = "BitXor"         -> Outcome(set_mem_a(m, BitXorW(a, ZeroExtend(arg0))), p, d, None)

(***************************************************************************)
(* Decode Loop: one tick of one creature.                                  *)
(***************************************************************************)
\* The tape byte at an offset, read circularly.
TapeAt(tape, offset) ==
    tape[(offset % Len(tape)) + 1]

\* The call for a decoded instruction, through the builder of its arity.
BuildCall(tape, offset, inst) ==
    LET n == get_args("creature", inst)
    IN  CASE n = 0 -> new_0_arg(inst)
          [] n = 1 -> new_1_arg(inst, TapeAt(tape, offset + 1))
          [] n = 2 -> new_2_arg(inst, TapeAt(tape, offset + 1), TapeAt(tape, offset + 2))
          [] n = 3 -> new_3_arg(inst, TapeAt(tape, offset + 1), TapeAt(tape, offset + 2),
                                TapeAt(tape, offset + 3))

Snapshot ==
    [cycle |-> creature.cycle, current |-> creature.current,
     mem |-> mem, pos |-> pos, dir |-> dir]

\* The fetched byte has no Instruction: the tick is skipped and reported.
TickUnknown ==
    /\ Len(creature.instructions) > 0
    /\ LET byte == TapeAt(creature.instructions, creature.current)
       IN  /\ ~from_byte("creature", byte).ok
           /\ report' = <<"UnknownOpcode">>
           /\ last' = [kind |-> "unknown", byte |-> byte, pre |-> Snapshot]
    /\ UNCHANGED <<conv, mem, written, creature, pos, dir, log>>

\* The fetched byte decodes: read the arguments, build the call, execute
\* it, count the cycle and move the offset.
TickExecute ==
    /\ Len(creature.instructions) > 0
    /\ creature.cycle < MaxTicks
    /\ LET tape == creature.instructions
           len  == Len(tape)
           byte == TapeAt(tape, creature.current)
           dec  == from_byte("creature", byte)
       IN  /\ dec.ok
           /\ \E env \in EnvsFor(dec.val) :
              LET inst == dec.val
                  n    == get_args("creature", inst)
                  call == BuildCall(tape, creature.current, inst).val
                  out  == execute(call, mem, pos, dir, env)
                  next == IF out.jump.some THEN out.jump.val % len
                          ELSE (creature.current + 1 + n) % len
              IN  /\ mem' = out.mem
                  /\ pos' = out.pos
                  /\ dir' = out.dir
                  /\ creature' = [creature EXCEPT !.cycle = @ + 1, !.current = next]
                  /\ report' = << >>
                  /\ last' = [kind |-> "exec", byte |-> byte, call |-> call, pre |-> Snapshot]
                  /\ log' = Append(log, call)
    /\ UNCHANGED <<conv, written>>

(***************************************************************************)
(* A creature is created with a tape and then ticked.                      *)
(***************************************************************************)
CoreBytes ==
    {0, 1, 7, 29, 33, 37, 40, 69, 255}

RECURSIVE SeqsOfLen(_, _)
SeqsOfLen(S, n) ==
    IF n = 0 THEN {<< >>}
    ELSE {Append(t, x) : t \in SeqsOfLen(S, n - 1), x \in S}

Tapes ==
    {<<b>> : b \in Byte} \cup UNION {SeqsOfLen(CoreBytes, n) : n \in 0..MaxTape}

InitTick ==
    /\ conv = Idle
    /\ mem = CreatureMemory_new
    /\ written = [a |-> W(0), b |-> W(0), tmp |-> W(0)]
    /\ \E tape \in Tapes : creature = Creature_new_with(tape)
    /\ pos = CreaturePos_default
    /\ dir = CreatureDir_default
    /\ report = << >>
    /\ last = NoTick
    /\ log = << >>

NextTick ==
    \/ TickUnknown
    \/ TickExecute

SpecTick ==
    InitTick /\ [][NextTick]_vars

(***************************************************************************)
(* Properties of the Decode Loop and the Processor.                        *)
(***************************************************************************)
\* C6: a tick that fetches a byte with no assigned Instruction leaves the
\* cycle count, the registers, the current offset and the position as they
\* were, and reports exactly one Unknown Opcode event.
UnknownOpcodeSafety ==
    (last.kind # "none" /\ ~Assigned("creature", last.byte)) =>
        /\ creature.cycle = last.pre.cycle
        /\ mem = last.pre.mem
        /\ creature.current = last.pre.current
        /\ pos = last.pre.pos
        /\ report = <<"UnknownOpcode">>

UnknownOpcodeSkipped ==
    /\ last.kind = "unknown"
    /\ last.byte = 255
    /\ creature.cycle = 1
    /\ creature.current = 1
    /\ report = <<"UnknownOpcode">>

\* C7: the cycle counter starts at 0 and counts the executed calls: every
\* executed call adds exactly one, a skipped tick adds nothing, so it never
\* decreases; on a tape of None bytes the registers and the position stay
\* as created while the counter equals the number of executed calls.
AllNone(tape) ==
    Len(tape) > 0 /\ \A i \in 1..Len(tape) : tape[i] = 0

CycleCounting ==
    /\ creature.cycle = Len(log)
    /\ last.kind = "exec" => creature.cycle = last.pre.cycle + 1
    /\ last.kind = "unknown" => creature.cycle = last.pre.cycle
    /\ AllNone(creature.instructions) =>
           /\ mem = [a |-> W(0), b |-> W(0), tmp |-> W(0)]
           /\ pos = <<0, 0>>

NoneTapeTicked ==
    /\ creature.instructions = <<0, 0, 0>>
    /\ creature.cycle = 2
    /\ last.kind = "exec"

\* C8: after an executed instruction the offset is the old offset plus one
\* plus the instruction's arity, modulo the tape length, unless the
\* instruction is Goto, or GotoCondAGtB with A > B, or GotoCondEq with
\* A = B, and then it is the argument (the tape byte after the opcode)
\* modulo the tape length.
JumpTaken(call, m) ==
    \/ call.instruction = "Goto"
    \/ call.instruction = "GotoCondAGtB" /\ GtW(m.a, m.b)
    \/ call.instruction = "GotoCondEq" /\ m.a = m.b

OffsetUpdate ==
    last.kind = "exec" =>
        LET tape  == creature.instructions
            len   == Len(tape)
            call  == last.call
            arity == Discriminant("creature", call.instruction) % 4
        IN  IF JumpTaken(call, last.pre.mem)
            THEN /\ call.args[1] = Some(TapeAt(tape, last.pre.current + 1))
                 /\ creature.current = call.args[1].val % len
            ELSE creature.current = (last.pre.current + 1 + arity) % len

GotoWrapped ==
    /\ creature.instructions = <<29, 7>>
    /\ last.kind = "exec"
    /\ last.call = new_raw("Goto", Some(7), None, None)
    /\ creature.current = 1

\* C9 as claimed: from A = 0, UAdd 1 then UAdd 255 leaves A = 0 (a wrap at
\* byte width), the cycle count 2, and B and TMP as they were.
UAddScenario ==
    log = << new_raw("UAdd", Some(1), None, None),
             new_raw("UAdd", Some(255), None, None) >>

Creature_default ==
    Creature_new

get_instructions(c) ==
    c.instructions

\* get_instructions_mut().push(b)
TapePush(b) ==
    /\ Len(get_instructions(creature)) < MaxTape
    /\ creature' = [creature EXCEPT !.instructions = Append(@, b)]
    /\ UNCHANGED <<conv, mem, written, pos, dir, report, last, log>>

\* get_instructions_mut().pop()
TapePop ==
    /\ Len(get_instructions(creature)) > 0
    /\ creature' = [creature EXCEPT !.instructions = SubSeq(@, 1, Len(@) - 1)]
    /\ UNCHANGED <<conv, mem, written, pos, dir, report, last, log>>

\* get_instructions_mut().clear()
TapeClear ==
    /\ creature' = [creature EXCEPT !.instructions = << >>]
    /\ UNCHANGED <<conv, mem, written, pos, dir, report, last, log>>

\* get_instructions_mut()[i] = b
TapeWrite(i, b) ==
    /\ i \in 1..Len(get_instructions(creature))
    /\ creature' = [creature EXCEPT !.instructions[i] = b]
    /\ UNCHANGED <<conv, mem, written, pos, dir, report, last, log>>

InitTape ==
    /\ conv = Idle
    /\ mem = CreatureMemory_new
    /\ written = [a |-> W(0), b |-> W(0), tmp |-> W(0)]
    /\ \/ creature = Creature_new
       \/ creature = Creature_default
       \/ \E tape \in Tapes : creature = Creature_new_with(tape)
    /\ pos = CreaturePos_default
    /\ dir = CreatureDir_default
    /\ report = << >>
    /\ last = NoTick
    /\ log = << >>

NextTape ==
    \/ \E b \in CoreBytes : TapePush(b)
    \/ TapePop
    \/ TapeClear
    \/ \E i \in 1..MaxTape : \E b \in CoreBytes : TapeWrite(i, b)

SpecTape ==
    InitTape /\ [][NextTape]_vars

\* C11: in every state reachable through the constructors and
\* get_instructions_mut the tape is non-empty and current is an offset
\* into it, so the byte at current mod length can be read.
TapeWellFormed ==
    /\ Len(creature.instructions) > 0
    /\ creature.current < Len(creature.instructions)

====
